---------------------------- MODULE Spec2Model ----------------------------
(***************************************************************************)
(* Model of the plaso extraction plugins under src/plaso/parsers:          *)
(*   - sqlite_plugins/firefox.py: FirefoxHistoryPlugin (four row handlers,   *)
(*     _GetUrl with the lazily built URL cache, _ReverseHostname) and        *)
(*     FirefoxDownloadsPlugin (one row handler);                             *)
(*   - bash_history.py: BashHistoryParser (line grammar, ParseRecord,        *)
(*     VerifyStructure).                                                     *)
(*                                                                         *)
(* Python values are tagged records (PyNone, PyInt, PyStr) so that None, 0, *)
(* the empty string and u'1' versus 1 stay distinct, as they are in the     *)
(* code.  Text is a sequence of one-character strings.                      *)
(*                                                                         *)
(* Four specifications share the variables:                                 *)
(*   SpecHost     _ReverseHostname applied once and twice to a string;      *)
(*   Spec         one relational plugin invocation on one SQLite source;    *)
(*   SpecBash     one extraction pass of the bash history parser;           *)
(*   SpecVerify   VerifyStructure applied to a sample.                      *)
(***************************************************************************)
EXTENDS Integers, Sequences, FiniteSets, TLC

VARIABLES
  \* ---- _ReverseHostname harness
  hostname,      \* the argument (PyNone or PyStr)
  hostOnce,      \* _ReverseHostname(hostname)
  hostTwice,     \* _ReverseHostname(_ReverseHostname(hostname))
  hostPc,        \* "idle" | "input" | "once" | "twice"
  \* ---- one relational plugin invocation
  plugin,        \* "firefox_history" | "firefox_downloads" | "none"
  tables,        \* the table names of the source's schema
  visits,        \* ids of the rows of moz_places JOIN moz_historyvisits
  pstate,        \* "Idle" | "Unprobed" | "Selected" | "NotSelected" | "Extracting" | "Done"
  queryIndex,    \* index into QUERIES of the query being run (0 before the first)
  pending,       \* ids of the page-visit rows the current query still returns
  rowsHandled,   \* row handler calls made in this invocation
  queriesRun,    \* plugin queries executed to completion
  cacheUrl,      \* SQLiteCache attribute 'url': id -> <<url, rev_host>>
  urlQueries,    \* executions of URL_CACHE_QUERY
  getUrlCalls,   \* calls of _GetUrl
  lastHandler,   \* name of the row handler called last ("" before the first)
  lastQuery,     \* query text passed to it
  lastRow,       \* the row passed to it
  lastData,      \* the EventData it built
  rowEvents,     \* events it passed to ProduceEventWithEventData, in order
  produced,      \* events the mediator forwarded in this invocation
  \* ---- one bash history extraction pass
  records,       \* the records the input file was written from
  text,          \* the file's characters
  offset,        \* characters consumed so far
  bashEvents,    \* events forwarded to the mediator, in order
  bstate,        \* "Idle" | "Extracting" | "Done" | "Skipped"
  parseCalls,    \* ParseRecord calls
  lastKey,       \* key of the last ParseRecord call
  lastError,     \* "" | "ParseError"
  \* ---- VerifyStructure harness
  sample,        \* the text handed to VerifyStructure
  verifyPc,      \* "idle" | "input" | "done"
  verifyResult   \* its return value

hostVars == <<hostname, hostOnce, hostTwice, hostPc>>
sqlVars == <<plugin, tables, visits, pstate, queryIndex, pending, rowsHandled,
             queriesRun, cacheUrl, urlQueries, getUrlCalls, lastHandler,
             lastQuery, lastRow, lastData, rowEvents, produced>>
bashVars == <<records, text, offset, bashEvents, bstate, parseCalls, lastKey,
              lastError>>
verifyVars == <<sample, verifyPc, verifyResult>>
vars == <<hostVars, sqlVars, bashVars, verifyVars>>
notHostVars == <<sqlVars, bashVars, verifyVars>>
notSqlVars == <<hostVars, bashVars, verifyVars>>
notBashVars == <<hostVars, sqlVars, verifyVars>>
notVerifyVars == <<hostVars, sqlVars, bashVars>>

---------------------------------------------------------------------------
(* Python values *)

PyNone == [t |-> "None", n |-> 0, s |-> <<>>]
PyInt(k) == [t |-> "int", n |-> k, s |-> <<>>]
PyStr(c) == [t |-> "str", n |-> 0, s |-> c]
PyList(items) == [t |-> "list", n |-> 0, s |-> items]

\* Python truth value of None, an int or a string: `if value:`
Truthy(v) ==
  CASE v.t = "None" -> FALSE
    [] v.t = "int" -> v.n # 0
    [] v.t = "str" -> v.s # <<>>
    [] v.t = "list" -> v.s # <<>>

\* s[::-1]
RECURSIVE Reversed(_)
Reversed(s) == IF s = <<>> THEN <<>> ELSE Reversed(Tail(s)) \o <<Head(s)>>

\* All character sequences over alphabet of length at most n
RECURSIVE StringsUpTo(_, _)
StringsUpTo(alphabet, n) ==
  IF n = 0 THEN {<<>>}
  ELSE LET shorter == StringsUpTo(alphabet, n - 1)
       IN shorter \cup {Append(s, c) : s \in shorter, c \in alphabet}

---------------------------------------------------------------------------
(* FirefoxHistoryPlugin._ReverseHostname *)

\* A slip in the slice: the leading character is kept after reversal.
ReverseHostnameKeepsDot(h) ==
  IF ~Truthy(h) THEN PyStr(<<>>)
  ELSE IF Len(h.s) > 1 THEN PyStr(Reversed(h.s))
  ELSE h

\* A slip: the first character after reversal is dropped whether or not it is
\* a dot.
ReverseHostnameAlwaysStrips(h) ==
  IF ~Truthy(h) THEN PyStr(<<>>)
  ELSE IF Len(h.s) > 1 THEN PyStr(Tail(Reversed(h.s)))
  ELSE h

ReverseHostname(h) ==
  IF ~Truthy(h) THEN PyStr(<<>>)
  ELSE IF Len(h.s) > 1
       THEN IF h.s[Len(h.s)] = "."
            THEN PyStr(Tail(Reversed(h.s)))
            ELSE PyStr(Reversed(h.s))
       ELSE h

MaxHostLen == 4
HostAlphabet == {"a", "b", "."}
StoredGoogle == <<"m","o","c",".","e","l","g","o","o","g",".","w","w","w",".">>
PlainGoogle == <<"w","w","w",".","g","o","o","g","l","e",".","c","o","m">>
HostInputs ==
  {PyNone} \cup {PyStr(s) : s \in StringsUpTo(HostAlphabet, MaxHostLen)}
    \cup {PyStr(StoredGoogle), PyStr(PlainGoogle)}

IdleHost ==
  /\ hostname = PyNone /\ hostOnce = PyNone /\ hostTwice = PyNone
  /\ hostPc = "idle"

InitHost ==
  /\ hostname \in HostInputs
  /\ hostOnce = PyNone /\ hostTwice = PyNone
  /\ hostPc = "input"

ReverseOnce ==
  /\ hostPc = "input"
  /\ hostOnce' = ReverseHostname(hostname)
  /\ hostPc' = "once"
  /\ UNCHANGED <<hostname, hostTwice>>
  /\ UNCHANGED notHostVars

ReverseTwice ==
  /\ hostPc = "once"
  /\ hostTwice' = ReverseHostname(hostOnce)
  /\ hostPc' = "twice"
  /\ UNCHANGED <<hostname, hostOnce>>
  /\ UNCHANGED notHostVars

---------------------------------------------------------------------------
(* Rows, events and event data of the relational plugins *)

\* Characters of a few literals of firefox.py
VISITED_FROM == <<"v","i","s","i","t","e","d"," ","f","r","o","m",":"," ">>
URL_HIDDEN == <<"(","u","r","l"," ","h","i","d","d","e","n",")">>
DIRECTLY_TYPED == <<"(","d","i","r","e","c","t","l","y"," ","t","y","p","e","d",")">>
NOT_TYPED == <<"(","U","R","L"," ","n","o","t"," ","t","y","p","e","d"," ",
               "d","i","r","e","c","t","l","y",")">>
NOT_AVAILABLE == <<"N","/","A">>

\* date_time = PosixTimeInMicroseconds(timestamp); event = DateTimeValuesEvent(
\* date_time, role): the event keeps the raw microsecond value and the role.
DateTimeValuesEvent(timestamp, role, instance) ==
  [timestamp |-> timestamp.n, timestamp_desc |-> role, data |-> instance]

\* A slip: `if timestamp is not None:` in place of `if timestamp:`.
TimestampEventsNotNone(timestamp, role, instance) ==
  IF timestamp.t # "None"
  THEN <<DateTimeValuesEvent(timestamp, role, instance)>>
  ELSE <<>>

\* timestamp = row[column]; if timestamp: ... ProduceEventWithEventData(event,
\* event_data) -- the events one timestamp column contributes.
TimestampEvents(timestamp, role, instance) ==
  IF Truthy(timestamp)
  THEN <<DateTimeValuesEvent(timestamp, role, instance)>>
  ELSE <<>>

\* FirefoxHistoryPlugin.QUERIES: (query, row handler name), in order.
HistoryQueries ==
  << [query |-> "SELECT ... FROM moz_places, moz_historyvisits WHERE moz_places.id = moz_historyvisits.place_id",
      handler |-> "ParsePageVisitedRow"],
     [query |-> "SELECT ... FROM moz_places, moz_bookmarks WHERE moz_bookmarks.fk = moz_places.id AND moz_bookmarks.type <> 3",
      handler |-> "ParseBookmarkRow"],
     [query |-> "SELECT ... FROM moz_items_annos, moz_bookmarks, moz_places WHERE ...",
      handler |-> "ParseBookmarkAnnotationRow"],
     [query |-> "SELECT ... FROM moz_bookmarks WHERE moz_bookmarks.type = 2",
      handler |-> "ParseBookmarkFolderRow"] >>

\* FirefoxDownloadsPlugin.QUERIES
DownloadsQueries ==
  << [query |-> "SELECT ... FROM moz_downloads", handler |-> "ParseDownloadsRow"] >>

\* A slip: one table missing from the set.
HistoryRequiredTablesShort ==
  {"moz_places", "moz_historyvisits", "moz_bookmarks"}

\* FirefoxHistoryPlugin.REQUIRED_TABLES
HistoryRequiredTables ==
  {"moz_places", "moz_historyvisits", "moz_bookmarks", "moz_items_annos"}

\* FirefoxDownloadsPlugin.REQUIRED_TABLES
DownloadsRequiredTables == {"moz_downloads"}

\* FirefoxHistoryPlugin._BOOKMARK_TYPES.get(type, u'N/A')
BookmarkType(type) ==
  IF type = PyInt(1) THEN PyStr(<<"U","R","L">>)
  ELSE IF type = PyInt(2) THEN PyStr(<<"F","o","l","d","e","r">>)
  ELSE IF type = PyInt(3) THEN PyStr(<<"S","e","p","a","r","a","t","o","r">>)
  ELSE PyStr(NOT_AVAILABLE)

\* Python's `value or default`
Or(value, default) == IF Truthy(value) THEN value ELSE default

---------------------------------------------------------------------------
(* The URL cache: SQLiteCache and SQLiteDatabase as _GetUrl uses them *)

\* moz_places columns of the place a visit row joins to, by visit id.
PlaceOf(id) ==
  IF id = 1
  THEN [url |-> PyStr(<<"h","t","t","p",":","/","/","a",".","b","/">>),
        rev_host |-> PyStr(<<"b",".","a",".">>)]
  ELSE [url |-> PyStr(<<>>), rev_host |-> PyNone]

\* database.Query(URL_CACHE_QUERY): SELECT h.id AS id, p.url, p.rev_host FROM
\* moz_places p, moz_historyvisits h WHERE p.id = h.place_id
UrlCacheQuery(db) ==
  {[id |-> id, url |-> PlaceOf(id).url, rev_host |-> PlaceOf(id).rev_host] :
     id \in db}

\* cache.GetResults(u'url'): the stored mapping, an empty one when none is stored
GetResults(cache) == cache

\* cache.CacheQueryResults(result_set, 'url', 'id', ('url', 'rev_host')): stores
\* id -> [url, rev_host]; stores nothing when the result set has no row.
CacheQueryResults(cache, result_set) ==
  IF result_set = {} THEN cache
  ELSE [id \in {r.id : r \in result_set} |->
          LET r == CHOOSE r \in result_set : r.id = id
          IN <<r.url, r.rev_host>>]

\* A slip: the guard of _GetUrl dropped, the cache query runs on every call.
UrlCacheMissingAlways(url_cache_results) == TRUE

\* `if not url_cache_results:` in _GetUrl
UrlCacheMissing(url_cache_results) == DOMAIN url_cache_results = {}

\* A slip: `if not url: return u''` left out, the text is always formatted.
GetUrlAlwaysFormats(url_id, cache, db) ==
  LET missing == UrlCacheMissing(GetResults(cache))
      cacheAfter == IF missing THEN CacheQueryResults(cache, UrlCacheQuery(db))
                    ELSE cache
      url_cache_results == GetResults(cacheAfter)
      entry == IF url_id.n \in DOMAIN url_cache_results
               THEN url_cache_results[url_id.n]
               ELSE <<PyStr(<<>>), PyStr(<<>>)>>
  IN [result |-> entry[1].s \o <<" ", "(">> \o ReverseHostname(entry[2]).s
                   \o <<")">>,
      cache |-> cacheAfter,
      queries |-> IF missing THEN 1 ELSE 0]

\* FirefoxHistoryPlugin._GetUrl: the text returned, the cache afterwards and
\* the number of URL_CACHE_QUERY executions of this call.
GetUrl(url_id, cache, db) ==
  LET missing == UrlCacheMissing(GetResults(cache))
      cacheAfter == IF missing THEN CacheQueryResults(cache, UrlCacheQuery(db))
                    ELSE cache
      url_cache_results == GetResults(cacheAfter)
      entry == IF url_id.n \in DOMAIN url_cache_results
               THEN url_cache_results[url_id.n]
               ELSE <<PyStr(<<>>), PyStr(<<>>)>>
      url == entry[1]
      reverse_host == entry[2]
  IN [result |-> IF ~Truthy(url) THEN <<>>
                 ELSE url.s \o <<" ", "(">> \o ReverseHostname(reverse_host).s
                        \o <<")">>,
      cache |-> cacheAfter,
      queries |-> IF missing THEN 1 ELSE 0]

---------------------------------------------------------------------------
(* Row handlers: the EventData built, the events produced in order, and    *)
(* for the page-visit handler the cache and query count afterwards         *)

\* A slip: the hidden marker appended after the typed marker.
PageVisitedExtrasSwapped(row, visitedFrom) ==
  (IF Truthy(row.from_visit) THEN <<VISITED_FROM \o visitedFrom>> ELSE <<>>)
    \o (IF row.typed = PyStr(<<"1">>) THEN <<DIRECTLY_TYPED>> ELSE <<NOT_TYPED>>)
    \o (IF row.hidden = PyStr(<<"1">>) THEN <<URL_HIDDEN>> ELSE <<>>)

\* ParsePageVisitedRow, the extras list; visitedFrom is what _GetUrl returned
PageVisitedExtras(row, visitedFrom) ==
  (IF Truthy(row.from_visit) THEN <<VISITED_FROM \o visitedFrom>> ELSE <<>>)
    \o (IF row.hidden = PyStr(<<"1">>) THEN <<URL_HIDDEN>> ELSE <<>>)
    \o (IF row.typed = PyStr(<<"1">>) THEN <<DIRECTLY_TYPED>> ELSE <<NOT_TYPED>>)

ParsePageVisitedRow(row, cache, db, query, instance) ==
  LET got == IF Truthy(row.from_visit) THEN GetUrl(row.from_visit, cache, db)
             ELSE [result |-> <<>>, cache |-> cache, queries |-> 0]
      extras == PageVisitedExtras(row, got.result)
  IN [data |-> [data_type |-> "firefox:places:page_visited",
                instance |-> instance,
                extra |-> IF Truthy(PyList(extras)) THEN PyList(extras) ELSE PyNone,
                host |-> ReverseHostname(row.rev_host),
                offset |-> row.id,
                query |-> query,
                title |-> row.title,
                url |-> row.url,
                visit_count |-> row.visit_count,
                visit_type |-> row.visit_type],
      events |-> TimestampEvents(row.visit_date, "PAGE_VISITED", instance),
      cache |-> got.cache,
      queries |-> got.queries,
      getUrl |-> IF Truthy(row.from_visit) THEN 1 ELSE 0]

ParseBookmarkRow(row, query, instance) ==
  [data |-> [data_type |-> "firefox:places:bookmark",
             instance |-> instance,
             host |-> Or(row.rev_host, PyStr(NOT_AVAILABLE)),
             offset |-> row.id,
             places_title |-> row.places_title,
             query |-> query,
             title |-> row.bookmark_title,
             type |-> BookmarkType(row.type),
             url |-> row.url,
             visit_count |-> row.visit_count],
   events |-> TimestampEvents(row.dateAdded, "ADDED_TIME", instance)
                \o TimestampEvents(row.lastModified, "MODIFICATION_TIME", instance)]

ParseBookmarkAnnotationRow(row, query, instance) ==
  [data |-> [data_type |-> "firefox:places:bookmark_annotation",
             instance |-> instance,
             content |-> row.content,
             offset |-> row.id,
             query |-> query,
             title |-> row.title,
             url |-> row.url],
   events |-> TimestampEvents(row.dateAdded, "ADDED_TIME", instance)
                \o TimestampEvents(row.lastModified, "MODIFICATION_TIME", instance)]

ParseBookmarkFolderRow(row, query, instance) ==
  [data |-> [data_type |-> "firefox:places:bookmark_folder",
             instance |-> instance,
             offset |-> row.id,
             query |-> query,
             title |-> Or(row.title, PyStr(NOT_AVAILABLE))],
   events |-> TimestampEvents(row.dateAdded, "ADDED_TIME", instance)
                \o TimestampEvents(row.lastModified, "MODIFICATION_TIME", instance)]

\* A slip: the end-time block placed before the start-time block.
ParseDownloadsRowEndFirst(row, query, instance) ==
  [data |-> [data_type |-> "firefox:downloads:download",
             instance |-> instance,
             full_path |-> row.target,
             mime_type |-> row.mimeType,
             name |-> row.name,
             offset |-> row.id,
             query |-> query,
             received_bytes |-> row.currBytes,
             referrer |-> row.referrer,
             temporary_location |-> row.tempPath,
             total_bytes |-> row.maxBytes,
             url |-> row.source],
   events |-> TimestampEvents(row.endTime, "END_TIME", instance)
                \o TimestampEvents(row.startTime, "START_TIME", instance)]

ParseDownloadsRow(row, query, instance) ==
  [data |-> [data_type |-> "firefox:downloads:download",
             instance |-> instance,
             full_path |-> row.target,
             mime_type |-> row.mimeType,
             name |-> row.name,
             offset |-> row.id,
             query |-> query,
             received_bytes |-> row.currBytes,
             referrer |-> row.referrer,
             temporary_location |-> row.tempPath,
             total_bytes |-> row.maxBytes,
             url |-> row.source],
   events |-> TimestampEvents(row.startTime, "START_TIME", instance)
                \o TimestampEvents(row.endTime, "END_TIME", instance)]

---------------------------------------------------------------------------
(* One plugin invocation on one source: capability probe, then every       *)
(* declared query run to completion, its handler called once per row       *)

MaxRows == 1
MaxVisitId == 2

Plugins == {"firefox_history", "firefox_downloads"}
AllTables == {"moz_places", "moz_historyvisits", "moz_bookmarks",
              "moz_items_annos", "moz_downloads"}
VisitIds == 1..MaxVisitId

Queries(p) == IF p = "firefox_history" THEN HistoryQueries ELSE DownloadsQueries
RequiredTables(p) ==
  IF p = "firefox_history" THEN HistoryRequiredTables ELSE DownloadsRequiredTables

\* Raw values of the columns the handlers read
TimestampValues == {PyNone, PyInt(0), PyInt(1000000)}
FromVisitValues == {PyNone, PyInt(0)} \cup {PyInt(i) : i \in 1..(MaxVisitId + 1)}
FlagValues == {PyStr(<<"1">>), PyStr(<<"0">>), PyInt(1)}
SomeTitle == PyStr(<<"t">>)

PageVisitedRows(id) ==
  {[id |-> PyInt(id), url |-> PlaceOf(id).url, title |-> SomeTitle,
    visit_count |-> PyInt(1), visit_date |-> vd, from_visit |-> fv,
    rev_host |-> PlaceOf(id).rev_host, hidden |-> h, typed |-> ty,
    visit_type |-> PyInt(1)] :
     vd \in TimestampValues, fv \in FromVisitValues,
     h \in FlagValues, ty \in FlagValues}

BookmarkRows(id) ==
  {[type |-> ty, bookmark_title |-> SomeTitle, dateAdded |-> da,
    lastModified |-> lm, url |-> PlaceOf(1).url, places_title |-> SomeTitle,
    rev_host |-> rh, visit_count |-> PyInt(1), id |-> PyInt(id)] :
     ty \in {PyInt(1), PyInt(4)}, da \in TimestampValues,
     lm \in TimestampValues, rh \in {PyNone, PlaceOf(1).rev_host}}

BookmarkAnnotationRows(id) ==
  {[content |-> SomeTitle, dateAdded |-> da, lastModified |-> lm,
    title |-> SomeTitle, url |-> PlaceOf(1).url,
    rev_host |-> PlaceOf(1).rev_host, id |-> PyInt(id)] :
     da \in TimestampValues, lm \in TimestampValues}

BookmarkFolderRows(id) ==
  {[id |-> PyInt(id), title |-> ti, dateAdded |-> da, lastModified |-> lm] :
     ti \in {PyNone, SomeTitle}, da \in TimestampValues,
     lm \in TimestampValues}

DownloadsRows(id) ==
  {[id |-> PyInt(id), name |-> SomeTitle, source |-> PlaceOf(1).url,
    target |-> SomeTitle, tempPath |-> PyNone, startTime |-> st,
    endTime |-> et, state |-> PyInt(1), referrer |-> PyNone,
    currBytes |-> PyInt(1), maxBytes |-> PyInt(1), mimeType |-> PyNone] :
     st \in TimestampValues, et \in TimestampValues}

NoRow == [id |-> PyNone]
NoData == [data_type |-> "", instance |-> 0]

\* The ids of the rows query i of plugin p returns: the page-visit query
\* returns the rows of the join, any other query up to MaxRows rows.
ResultIds(p, i, db) ==
  IF Queries(p)[i].handler = "ParsePageVisitedRow" THEN {db}
  ELSE {1..k : k \in 0..MaxRows}

Min(S) == CHOOSE x \in S : \A y \in S : x <= y

IdleSql ==
  /\ plugin = "none" /\ tables = {} /\ visits = {} /\ pstate = "Idle"
  /\ queryIndex = 0 /\ pending = {} /\ rowsHandled = 0 /\ queriesRun = 0
  /\ cacheUrl = <<>> /\ urlQueries = 0 /\ getUrlCalls = 0
  /\ lastHandler = "" /\ lastQuery = "" /\ lastRow = NoRow
  /\ lastData = NoData /\ rowEvents = <<>> /\ produced = 0

InitSql ==
  /\ plugin \in Plugins
  /\ tables \in SUBSET AllTables
  /\ visits \in SUBSET VisitIds
  /\ pstate = "Unprobed"
  /\ queryIndex = 0 /\ pending = {} /\ rowsHandled = 0 /\ queriesRun = 0
  /\ cacheUrl = <<>> /\ urlQueries = 0 /\ getUrlCalls = 0
  /\ lastHandler = "" /\ lastQuery = "" /\ lastRow = NoRow
  /\ lastData = NoData /\ rowEvents = <<>> /\ produced = 0

\* Capability probe: the plugin applies iff the schema holds every required table.
CheckRequiredTables ==
  /\ pstate = "Unprobed"
  /\ pstate' = IF RequiredTables(plugin) \subseteq tables
               THEN "Selected" ELSE "NotSelected"
  /\ UNCHANGED <<plugin, tables, visits, queryIndex, pending, rowsHandled,
                 queriesRun, cacheUrl, urlQueries, getUrlCalls, lastHandler,
                 lastQuery, lastRow, lastData, rowEvents, produced>>
  /\ UNCHANGED notSqlVars

\* The dispatcher starts the selected plugin: its first query is executed.
StartExtraction ==
  /\ pstate = "Selected"
  /\ pstate' = "Extracting"
  /\ queryIndex' = 1
  /\ pending' \in ResultIds(plugin, 1, visits)
  /\ UNCHANGED <<plugin, tables, visits, rowsHandled, queriesRun, cacheUrl,
                 urlQueries, getUrlCalls, lastHandler, lastQuery, lastRow,
                 lastData, rowEvents, produced>>
  /\ UNCHANGED notSqlVars

\* The current query has no row left: the next query is executed, or the
\* plugin is done after the last.
FinishQuery ==
  /\ pstate = "Extracting"
  /\ pending = {}
  /\ queriesRun' = queriesRun + 1
  /\ IF queryIndex < Len(Queries(plugin))
     THEN /\ queryIndex' = queryIndex + 1
          /\ pending' \in ResultIds(plugin, queryIndex + 1, visits)
          /\ pstate' = pstate
     ELSE /\ pstate' = "Done"
          /\ UNCHANGED <<queryIndex, pending>>
  /\ UNCHANGED <<plugin, tables, visits, rowsHandled, cacheUrl, urlQueries,
                 getUrlCalls, lastHandler, lastQuery, lastRow, lastData,
                 rowEvents, produced>>
  /\ UNCHANGED notSqlVars

\* What every row handler call records
Handled(name, row, out) ==
  /\ pending' = pending \ {Min(pending)}
  /\ rowsHandled' = rowsHandled + 1
  /\ lastHandler' = name
  /\ lastQuery' = Queries(plugin)[queryIndex].query
  /\ lastRow' = row
  /\ lastData' = out.data
  /\ rowEvents' = out.events
  /\ produced' = produced + Len(out.events)
  /\ UNCHANGED <<plugin, tables, visits, pstate, queryIndex, queriesRun>>
  /\ UNCHANGED notSqlVars

RowReady(name) ==
  /\ pstate = "Extracting"
  /\ Queries(plugin)[queryIndex].handler = name
  /\ pending # {}

HandlePageVisitedRow ==
  /\ RowReady("ParsePageVisitedRow")
  /\ \E row \in PageVisitedRows(Min(pending)) :
       LET out == ParsePageVisitedRow(row, cacheUrl, visits,
                    Queries(plugin)[queryIndex].query, rowsHandled + 1)
       IN /\ Handled("ParsePageVisitedRow", row, out)
          /\ cacheUrl' = out.cache
          /\ urlQueries' = urlQueries + out.queries
          /\ getUrlCalls' = getUrlCalls + out.getUrl

HandleBookmarkRow ==
  /\ RowReady("ParseBookmarkRow")
  /\ \E row \in BookmarkRows(Min(pending)) :
       Handled("ParseBookmarkRow", row,
               ParseBookmarkRow(row, Queries(plugin)[queryIndex].query,
                                rowsHandled + 1))
  /\ UNCHANGED <<cacheUrl, urlQueries, getUrlCalls>>

HandleBookmarkAnnotationRow ==
  /\ RowReady("ParseBookmarkAnnotationRow")
  /\ \E row \in BookmarkAnnotationRows(Min(pending)) :
       Handled("ParseBookmarkAnnotationRow", row,
               ParseBookmarkAnnotationRow(row, Queries(plugin)[queryIndex].query,
                                          rowsHandled + 1))
  /\ UNCHANGED <<cacheUrl, urlQueries, getUrlCalls>>

HandleBookmarkFolderRow ==
  /\ RowReady("ParseBookmarkFolderRow")
  /\ \E row \in BookmarkFolderRows(Min(pending)) :
       Handled("ParseBookmarkFolderRow", row,
               ParseBookmarkFolderRow(row, Queries(plugin)[queryIndex].query,
                                      rowsHandled + 1))
  /\ UNCHANGED <<cacheUrl, urlQueries, getUrlCalls>>

HandleDownloadsRow ==
  /\ RowReady("ParseDownloadsRow")
  /\ \E row \in DownloadsRows(Min(pending)) :
       Handled("ParseDownloadsRow", row,
               ParseDownloadsRow(row, Queries(plugin)[queryIndex].query,
                                 rowsHandled + 1))
  /\ UNCHANGED <<cacheUrl, urlQueries, getUrlCalls>>

NextSql ==
  \/ CheckRequiredTables
  \/ StartExtraction
  \/ HandlePageVisitedRow
  \/ HandleBookmarkRow
  \/ HandleBookmarkAnnotationRow
  \/ HandleBookmarkFolderRow
  \/ HandleDownloadsRow
  \/ FinishQuery

---------------------------------------------------------------------------
(* BashHistoryParser: the pyparsing grammars over a character sequence.    *)
(* A position p is the index of the next character; Len(s) + 1 is the end  *)
(* of the text; a failed match ends at 0.                                  *)

TimestampMinDigits == 9
TimestampMaxDigits == 10
LookaheadDigits == 10

Digits == {"0", "1", "2", "3", "4", "5", "6", "7", "8", "9"}
DigitValue(c) ==
  CASE c = "0" -> 0 [] c = "1" -> 1 [] c = "2" -> 2 [] c = "3" -> 3
    [] c = "4" -> 4 [] c = "5" -> 5 [] c = "6" -> 6 [] c = "7" -> 7
    [] c = "8" -> 8 [] c = "9" -> 9

\* text_parser.PyParseIntCast: int(token)
RECURSIVE PyParseIntCast(_)
PyParseIntCast(d) ==
  IF d = <<>> THEN 0
  ELSE 10 * PyParseIntCast(SubSeq(d, 1, Len(d) - 1)) + DigitValue(d[Len(d)])

\* The characters every grammar element skips before it matches
WhiteChars == {" ", "\t", "\n", "\r"}

RECURSIVE SkipChars(_, _, _)
SkipChars(s, p, chars) ==
  IF p <= Len(s) /\ s[p] \in chars THEN SkipChars(s, p + 1, chars) ELSE p

SkipWhite(s, p) == SkipChars(s, p, WhiteChars)

\* Number of digits from position p on
DigitRun(s, p) == SkipChars(s, p, Digits) - p

\* pyparsing.Suppress(u'#')
MatchMarker(s, p) ==
  LET q == SkipWhite(s, p)
  IN IF q <= Len(s) /\ s[q] = "#" THEN q + 1 ELSE 0

\* pyparsing.Word(pyparsing.nums, min=9, max=10): at least min digits, and
\* no digit may follow the max-th.
MatchWord(s, p) ==
  LET q == SkipWhite(s, p)
      n == DigitRun(s, q)
  IN IF n >= TimestampMinDigits /\ n <= TimestampMaxDigits
     THEN [end |-> q + n, token |-> SubSeq(s, q, q + n - 1)]
     ELSE [end |-> 0, token |-> <<>>]

\* _TIMESTAMP
MatchTimestamp(s, p) ==
  LET m == MatchMarker(s, p)
  IN IF m = 0 THEN [end |-> 0, token |-> <<>>] ELSE MatchWord(s, m)

\* (?=($|\n#\d{10})): the end of the text (or its final line break), or a
\* line break, the marker and ten digits.
CommandLookahead(s, k) ==
  \/ k = Len(s) + 1
  \/ k = Len(s) /\ s[k] = "\n"
  \/ /\ k + 1 <= Len(s)
     /\ s[k] = "\n" /\ s[k + 1] = "#"
     /\ DigitRun(s, k + 2) >= LookaheadDigits

\* _COMMAND: the shortest text (line breaks included) up to the lookahead
MatchCommand(s, p) ==
  LET q == SkipWhite(s, p)
      e == CHOOSE k \in q..(Len(s) + 1) :
             /\ CommandLookahead(s, k)
             /\ \A j \in q..(k - 1) : ~CommandLookahead(s, j)
  IN [end |-> e, token |-> SubSeq(s, q, e - 1)]

\* pyparsing.lineEnd(): skips blanks, tabs and carriage returns, then a line
\* break or the end of the text
MatchLineEnd(s, p) ==
  LET q == SkipChars(s, p, WhiteChars \ {"\n"})
  IN IF q <= Len(s) THEN (IF s[q] = "\n" THEN q + 1 ELSE 0)
     ELSE q + 1

\* _LINE_GRAMMAR = _TIMESTAMP + _COMMAND + pyparsing.lineEnd()
MatchLineGrammar(s, p) ==
  LET ts == MatchTimestamp(s, p)
      cmd == MatchCommand(s, ts.end)
      le == MatchLineEnd(s, cmd.end)
  IN IF ts.end = 0 \/ le = 0
     THEN [matched |-> FALSE, timestamp |-> 0, command |-> <<>>, end |-> 0]
     ELSE [matched |-> TRUE, timestamp |-> PyParseIntCast(ts.token),
           command |-> cmd.token, end |-> le]

\* _VERIFICATION_GRAMMAR tried at loc: Regex(r'^\s?[^#].*?$', MULTILINE) is a
\* whole line that starts in column 0 with a character other than the marker,
\* then _TIMESTAMP, then NotAny(pythonStyleComment).
VerificationMatchAt(s, loc) ==
  LET p == SkipWhite(s, loc)
  IN /\ p <= Len(s)
     /\ p = 1 \/ s[p - 1] = "\n"
     /\ s[p] # "#"
     /\ LET e == SkipChars(s, p + 1, {c \in {s[i] : i \in 1..Len(s)} : c # "\n"})
            ts == MatchTimestamp(s, e)
        IN /\ ts.end # 0
           /\ LET c == SkipWhite(s, ts.end)
              IN ~(c <= Len(s) /\ s[c] = "#")

\* BashHistoryParser.VerifyStructure: scanString(line, maxMatches=1) finds a match
VerifyStructure(s) == \E loc \in 1..(Len(s) + 1) : VerificationMatchAt(s, loc)

\* A slip: the structure key is not checked.
KnownStructureAny(key) == TRUE

\* `if key != u'log_entry': raise errors.ParseError(...)`
KnownStructure(key) == key = "log_entry"

\* BashHistoryParser.ParseRecord: whether it raised ParseError, and the events
\* it passed to the mediator.
ParseRecord(key, structure) ==
  IF ~KnownStructure(key)
  THEN [raised |-> TRUE, events |-> <<>>]
  ELSE [raised |-> FALSE,
        events |-> <<[timestamp |-> structure.timestamp,
                      timestamp_desc |-> "MODIFICATION_TIME",
                      command |-> structure.command]>>]

---------------------------------------------------------------------------
(* One extraction pass of the bash history parser over one file *)

MaxRecords == 2

Anchor10a == <<"1","6","0","9","4","5","9","2","0","0">>
Anchor10b == <<"1","6","0","9","4","5","9","2","6","0">>
Anchor9 == <<"1","6","0","9","4","5","9","2","6">>
Anchors == {Anchor10a, Anchor10b, Anchor9}
Payloads == {<<>>, <<"l","s">>, <<"l","s"," ","-","l","a">>,
             <<"c","a","t"," ","<","<","E","\n","x","\n","E">>}
StructureKeys == {"log_entry", "header"}

RecordSeqs ==
  UNION {[1..n -> [anchor : Anchors, payload : Payloads]] : n \in 0..MaxRecords}

\* The characters of one record: the marker, the digits, and the payload on
\* the following line(s)
RecordText(r) ==
  <<"#">> \o r.anchor \o (IF r.payload = <<>> THEN <<>> ELSE <<"\n">> \o r.payload)

RECURSIVE FileText(_)
FileText(rs) ==
  IF rs = <<>> THEN <<>>
  ELSE IF Len(rs) = 1 THEN RecordText(rs[1])
  ELSE RecordText(rs[1]) \o <<"\n">> \o FileText(Tail(rs))

IdleBash ==
  /\ records = <<>> /\ text = <<>> /\ offset = 0 /\ bashEvents = <<>>
  /\ bstate = "Idle" /\ parseCalls = 0 /\ lastKey = "" /\ lastError = ""

InitBash ==
  /\ records \in RecordSeqs
  /\ \E preamble \in {<<>>, <<"x", "\n">>}, last \in {<<>>, <<"\n">>} :
       text = preamble \o FileText(records) \o last
  /\ offset = 0 /\ bashEvents = <<>>
  /\ bstate = "Unprobed" /\ parseCalls = 0 /\ lastKey = "" /\ lastError = ""

\* Format detection: the parser is selected iff VerifyStructure accepts the text.
ProbeBash ==
  /\ bstate = "Unprobed"
  /\ bstate' = IF VerifyStructure(text) THEN "Extracting" ELSE "NotSelected"
  /\ UNCHANGED <<records, text, offset, bashEvents, parseCalls, lastKey, lastError>>
  /\ UNCHANGED notBashVars

\* The line grammar matches at the start of the unread text: ParseRecord is
\* called with the structure's key and the parsed structure, and the matched
\* characters are consumed.  A ParseError ends this parser's pass.
ParseStep ==
  /\ bstate = "Extracting"
  /\ offset < Len(text)
  /\ LET m == MatchLineGrammar(text, offset + 1)
     IN /\ m.matched
        /\ \E key \in StructureKeys :
             LET out == ParseRecord(key, m)
             IN /\ parseCalls' = parseCalls + 1
                /\ lastKey' = key
                /\ bashEvents' = bashEvents \o out.events
                /\ IF out.raised
                   THEN /\ lastError' = "ParseError"
                        /\ bstate' = "Skipped"
                        /\ offset' = offset
                   ELSE /\ lastError' = ""
                        /\ bstate' = bstate
                        /\ offset' = IF m.end - 1 > Len(text) THEN Len(text)
                                     ELSE m.end - 1
  /\ UNCHANGED <<records, text>>
  /\ UNCHANGED notBashVars

\* No record starts at the unread text: one line is skipped.
SkipLine ==
  /\ bstate = "Extracting"
  /\ offset < Len(text)
  /\ ~MatchLineGrammar(text, offset + 1).matched
  /\ LET e == SkipChars(text, offset + 1,
                        {c \in {text[i] : i \in 1..Len(text)} : c # "\n"})
     IN offset' = IF e > Len(text) THEN Len(text) ELSE e
  /\ UNCHANGED <<records, text, bashEvents, bstate, parseCalls, lastKey, lastError>>
  /\ UNCHANGED notBashVars

\* The whole text is consumed.
FinishBash ==
  /\ bstate = "Extracting"
  /\ offset >= Len(text)
  /\ bstate' = "Done"
  /\ UNCHANGED <<records, text, offset, bashEvents, parseCalls, lastKey, lastError>>
  /\ UNCHANGED notBashVars

NextBash == ProbeBash \/ ParseStep \/ SkipLine \/ FinishBash

---------------------------------------------------------------------------
(* VerifyStructure applied to a sample assembled from a few pieces *)

MaxPieces == 6

Pieces == {<<"a">>, <<"#">>, <<" ">>, <<"\n">>, Anchor9, <<"0">>}

RECURSIVE Flatten(_)
Flatten(ps) == IF ps = <<>> THEN <<>> ELSE Head(ps) \o Flatten(Tail(ps))

IdleVerify == sample = <<>> /\ verifyPc = "idle" /\ verifyResult = FALSE

InitVerify ==
  /\ \E n \in 0..MaxPieces : \E ps \in [1..n -> Pieces] : sample = Flatten(ps)
  /\ verifyPc = "input"
  /\ verifyResult = FALSE

CallVerifyStructure ==
  /\ verifyPc = "input"
  /\ verifyResult' = VerifyStructure(sample)
  /\ verifyPc' = "done"
  /\ UNCHANGED sample
  /\ UNCHANGED notVerifyVars

---------------------------------------------------------------------------
(* Specifications *)

Init == IdleHost /\ InitSql /\ IdleBash /\ IdleVerify
Next == NextSql
Spec == Init /\ [][Next]_vars

InitHostSpec == InitHost /\ IdleSql /\ IdleBash /\ IdleVerify
NextHost == ReverseOnce \/ ReverseTwice
SpecHost == InitHostSpec /\ [][NextHost]_vars

InitBashSpec == IdleHost /\ IdleSql /\ InitBash /\ IdleVerify
SpecBash == InitBashSpec /\ [][NextBash]_vars

InitVerifySpec == IdleHost /\ IdleSql /\ IdleBash /\ InitVerify
NextVerify == CallVerifyStructure
SpecVerify == InitVerifySpec /\ [][NextVerify]_vars

---------------------------------------------------------------------------
(* Properties of the relational plugins (specification Spec) *)

\* C1: within one plugin invocation URL_CACHE_QUERY is executed at most once,
\* by the first _GetUrl call; every later _GetUrl call executes no query and
\* reads the mapping stored under 'url', which holds one entry per row of the
\* join and is not changed again.
C1_UrlCacheBuiltOnce ==
  /\ urlQueries <= 1
  /\ urlQueries = (IF getUrlCalls >= 1 THEN 1 ELSE 0)
  /\ DOMAIN cacheUrl = (IF getUrlCalls >= 1 THEN visits ELSE {})
  /\ \A id \in DOMAIN cacheUrl :
       cacheUrl[id] = <<PlaceOf(id).url, PlaceOf(id).rev_host>>

C1_Witness == getUrlCalls >= 2 /\ urlQueries = 1 /\ rowsHandled >= 2

\* The timestamp columns a row handler reads, with the role of each, in the
\* order of the handler's roles (added/start before modified/end).
TimestampColumns(handler, row) ==
  CASE handler = "ParsePageVisitedRow" ->
         <<[raw |-> row.visit_date, role |-> "PAGE_VISITED"]>>
    [] handler = "ParseDownloadsRow" ->
         <<[raw |-> row.startTime, role |-> "START_TIME"],
           [raw |-> row.endTime, role |-> "END_TIME"]>>
    [] handler \in {"ParseBookmarkRow", "ParseBookmarkAnnotationRow",
                    "ParseBookmarkFolderRow"} ->
         <<[raw |-> row.dateAdded, role |-> "ADDED_TIME"],
           [raw |-> row.lastModified, role |-> "MODIFICATION_TIME"]>>

Unset(raw) == raw = PyNone \/ raw = PyInt(0)

\* C2: after any row handler call, a timestamp column that is 0 or null has
\* produced no event of its role, and no event carries the timestamp 0; a
\* bookmark row with dateAdded = 1000000 and lastModified = 0 yields exactly
\* one event, of the added-time role.
C2_ZeroSentinel ==
  lastHandler # "" =>
    LET cols == TimestampColumns(lastHandler, lastRow)
    IN /\ \A i \in DOMAIN cols :
            Unset(cols[i].raw) =>
              \A j \in DOMAIN rowEvents :
                rowEvents[j].timestamp_desc # cols[i].role
       /\ \A j \in DOMAIN rowEvents : rowEvents[j].timestamp # 0
       /\ (/\ Len(cols) = 2
           /\ cols[1].raw = PyInt(1000000)
           /\ cols[2].raw = PyInt(0))
            => /\ Len(rowEvents) = 1
               /\ rowEvents[1].timestamp = 1000000
               /\ rowEvents[1].timestamp_desc = cols[1].role

C2_Witness ==
  /\ lastHandler = "ParseBookmarkRow"
  /\ lastRow.dateAdded = PyInt(1000000)
  /\ lastRow.lastModified = PyInt(0)
  /\ Len(rowEvents) = 1
  /\ rowEvents[1].timestamp_desc = "ADDED_TIME"

\* The tables the claim names for each plugin
ClaimedRequiredTables(p) ==
  IF p = "firefox_history"
  THEN {"moz_places", "moz_historyvisits", "moz_bookmarks", "moz_items_annos"}
  ELSE {"moz_downloads"}

\* C4: once probed, a plugin is selected iff the source's tables include all
\* of its required tables; a source missing a required table never has a
\* query or a row handler of that plugin run; a selected plugin that ends has
\* run every declared query (four for history, one for downloads), and with
\* zero rows it has produced zero events.
C4_SelectionByRequiredTables ==
  /\ pstate # "Unprobed" =>
       (pstate # "NotSelected" <=> ClaimedRequiredTables(plugin) \subseteq tables)
  /\ ~(ClaimedRequiredTables(plugin) \subseteq tables) =>
       /\ queryIndex = 0 /\ queriesRun = 0 /\ rowsHandled = 0 /\ produced = 0
       /\ pstate \in {"Unprobed", "NotSelected"}
  /\ pstate = "Done" =>
       /\ queriesRun = (IF plugin = "firefox_history" THEN 4 ELSE 1)
       /\ rowsHandled = 0 => produced = 0
  /\ pstate \in {"Unprobed", "Selected", "NotSelected", "Extracting", "Done"}

C4_Witness ==
  /\ plugin = "firefox_history"
  /\ "moz_downloads" \notin tables
  /\ pstate = "Done"
  /\ rowsHandled = 0 /\ queriesRun = 4 /\ produced = 0

IsPrefix(p, s) == Len(p) <= Len(s) /\ SubSeq(s, 1, Len(p)) = p

\* The annotation list of the claim: the visited-from text iff fromPresent,
\* then the hidden marker iff hidden = '1', then one of the typed markers.
AnnotationsAsClaimed(extras, row, fromPresent) ==
  LET rest == (IF row.hidden = PyStr(<<"1">>) THEN <<URL_HIDDEN>> ELSE <<>>)
                \o (IF row.typed = PyStr(<<"1">>) THEN <<DIRECTLY_TYPED>>
                    ELSE <<NOT_TYPED>>)
  IN IF fromPresent
     THEN /\ Len(extras) = Len(rest) + 1
          /\ IsPrefix(VISITED_FROM, extras[1])
          /\ Tail(extras) = rest
     ELSE extras = rest

\* C5 as stated: the visited-from text is present iff from_visit is non-null.
C5_Original ==
  lastHandler = "ParsePageVisitedRow" =>
    AnnotationsAsClaimed(lastData.extra.s, lastRow, lastRow.from_visit # PyNone)

\* C5, amended: the annotation list of a page-visit row is, in this order, the
\* 'visited from: ...' text iff from_visit is neither null nor 0, the hidden
\* marker iff hidden = '1', and exactly one of the typed / not-typed markers.
C5_AnnotationOrder ==
  lastHandler = "ParsePageVisitedRow" =>
    /\ lastData.extra.t = "list"
    /\ AnnotationsAsClaimed(lastData.extra.s, lastRow,
                            ~Unset(lastRow.from_visit))

C5_Witness ==
  /\ lastHandler = "ParsePageVisitedRow"
  /\ lastRow.hidden = PyStr(<<"1">>)
  /\ lastRow.typed = PyStr(<<"0">>)
  /\ lastRow.from_visit = PyInt(1)
  /\ 1 \in visits
  /\ Len(lastData.extra.s) = 3
  /\ IsPrefix(VISITED_FROM \o PlaceOf(1).url.s, lastData.extra.s[1])
  /\ lastData.extra.s[2] = URL_HIDDEN
  /\ lastData.extra.s[3] = NOT_TYPED

\* The roles of the columns that are neither null nor 0, in column order
RECURSIVE SetRoles(_)
SetRoles(cols) ==
  IF cols = <<>> THEN <<>>
  ELSE (IF Unset(Head(cols).raw) THEN <<>> ELSE <<Head(cols).role>>)
         \o SetRoles(Tail(cols))

\* C9: a row handler call forwards one event per timestamp column of the row
\* that is neither null nor 0 (at most two, at most one for a page visit), in
\* column order (added/start before modified/end); every one of them refers to
\* the one EventData built in that call, whose offset is the row id and whose
\* query is the text of the query the handler is declared for.
C9_EventsPerRow ==
  lastHandler # "" =>
    LET cols == TimestampColumns(lastHandler, lastRow)
        roles == SetRoles(cols)
    IN /\ Len(rowEvents) = Len(roles)
       /\ \A j \in DOMAIN rowEvents :
            /\ rowEvents[j].timestamp_desc = roles[j]
            /\ rowEvents[j].data = lastData.instance
       /\ Len(rowEvents) <= (IF lastHandler = "ParsePageVisitedRow" THEN 1 ELSE 2)
       /\ lastData.instance = rowsHandled
       /\ lastData.offset = lastRow.id
       /\ \E i \in DOMAIN Queries(plugin) :
            /\ Queries(plugin)[i].handler = lastHandler
            /\ Queries(plugin)[i].query = lastData.query

C9_Witness ==
  /\ lastHandler = "ParseDownloadsRow"
  /\ Len(rowEvents) = 2
  /\ rowEvents[1].timestamp_desc = "START_TIME"
  /\ rowEvents[2].timestamp_desc = "END_TIME"
  /\ rowEvents[1].data = rowEvents[2].data

\* The last page-visit row's from_visit has no entry in the URL cache, or the
\* cached URL is empty or null
LookupMiss ==
  \/ lastRow.from_visit.n \notin DOMAIN cacheUrl
  \/ ~Truthy(cacheUrl[lastRow.from_visit.n][1])

\* What the claim says of a page-visit row whose lookup missed: the handler
\* completed with its EventData, the annotation list begins with
\* 'visited from: ' followed by nothing, and the row's event is produced when
\* visit_date is set.
MissHandled ==
  /\ lastData.instance = rowsHandled
  /\ lastData.offset = lastRow.id
  /\ lastData.extra.t = "list"
  /\ Len(lastData.extra.s) >= 2
  /\ lastData.extra.s[1] = VISITED_FROM
  /\ ~Unset(lastRow.visit_date) =>
       /\ Len(rowEvents) = 1
       /\ rowEvents[1].timestamp = lastRow.visit_date.n
       /\ rowEvents[1].timestamp_desc = "PAGE_VISITED"
       /\ rowEvents[1].data = lastData.instance

\* C11 as stated: the premise is a from_visit that is non-null.
C11_Original ==
  (/\ lastHandler = "ParsePageVisitedRow"
   /\ lastRow.from_visit # PyNone
   /\ LookupMiss) => MissHandled

\* C11, amended: when a page-visit row's from_visit is neither null nor 0 and
\* has no entry in the URL cache (or the cached URL is empty), _GetUrl returns
\* the empty string, the handler completes, the annotation list begins with
\* 'visited from: ' with empty resolved text, and the row's event is produced
\* when visit_date is neither null nor 0.
C11_LookupMiss ==
  (/\ lastHandler = "ParsePageVisitedRow"
   /\ ~Unset(lastRow.from_visit)
   /\ LookupMiss) => MissHandled

C11_Witness ==
  /\ lastHandler = "ParsePageVisitedRow"
  /\ lastRow.from_visit = PyInt(MaxVisitId + 1)
  /\ visits # {}
  /\ lastRow.from_visit.n \notin DOMAIN cacheUrl
  /\ lastData.extra.s[1] = VISITED_FROM
  /\ Len(rowEvents) = 1

---------------------------------------------------------------------------
(* Properties of _ReverseHostname (specification SpecHost) *)

EndsWithDot(s) == s # <<>> /\ s[Len(s)] = "."
StartsWithDot(s) == s # <<>> /\ s[1] = "."

\* C6 as stated: reversing twice returns every string that does not end with
\* a dot.
C6_Original ==
  (hostPc = "twice" /\ hostname.t = "str" /\ ~EndsWithDot(hostname.s))
    => hostTwice = hostname

\* C6, amended: reversing twice returns every string that neither starts nor
\* ends with a dot (the empty string, single characters and strings with
\* inner dots included).
C6_RoundTrip ==
  (/\ hostPc = "twice" /\ hostname.t = "str"
   /\ ~EndsWithDot(hostname.s) /\ ~StartsWithDot(hostname.s))
    => hostTwice = hostname

C6_Witness ==
  /\ hostPc = "twice"
  /\ hostname = PyStr(<<"a", ".", "b">>)
  /\ hostOnce = PyStr(<<"b", ".", "a">>)
  /\ hostTwice = hostname

\* C7: a stored value longer than one character gives its characters in
\* reverse order without the stored trailing dot, so 'moc.elgoog.www.' gives
\* 'www.google.com'; null and the empty string give the empty string; a
\* single character gives itself.
C7_ReversalRule ==
  hostPc # "input" =>
    /\ hostOnce.t = "str"
    /\ (hostname.t = "None" \/ hostname.s = <<>>) => hostOnce.s = <<>>
    /\ (hostname.t = "str" /\ Len(hostname.s) = 1) => hostOnce = hostname
    /\ (hostname.t = "str" /\ Len(hostname.s) > 1) =>
         LET kept == IF EndsWithDot(hostname.s) THEN Len(hostname.s) - 1
                     ELSE Len(hostname.s)
         IN /\ Len(hostOnce.s) = kept
            /\ \A i \in 1..kept : hostOnce.s[i] = hostname.s[kept + 1 - i]
    /\ hostname = PyStr(StoredGoogle) => hostOnce = PyStr(PlainGoogle)

C7_Witness ==
  /\ hostPc = "once"
  /\ hostname = PyStr(StoredGoogle)
  /\ hostOnce = PyStr(PlainGoogle)

---------------------------------------------------------------------------
(* Properties of the bash history parser (SpecBash, SpecVerify) *)

\* One event per record: the anchor's integer, the modification role, and
\* the record's payload
RECURSIVE ExpectedEvents(_)
ExpectedEvents(rs) ==
  IF rs = <<>> THEN <<>>
  ELSE <<[timestamp |-> PyParseIntCast(Head(rs).anchor),
          timestamp_desc |-> "MODIFICATION_TIME",
          command |-> Head(rs).payload]>> \o ExpectedEvents(Tail(rs))

ValidHistory == text = FileText(records) \/ text = FileText(records) \o <<"\n">>

\* C3: a completed pass over a valid history file has produced exactly one
\* event per record, in order, with the modification role, the anchor's
\* integer as timestamp and the record's own payload as command.
C3_OneEventPerRecord ==
  (bstate = "Done" /\ ValidHistory) => bashEvents = ExpectedEvents(records)

\* C10: a ParseRecord call with a key other than 'log_entry' signals
\* ParseError, forwards no event and leaves the events produced so far in
\* place, and the pass of this parser ends in Skipped.
C10_UnknownKeyRaises ==
  [][(parseCalls' = parseCalls + 1 /\ lastKey' # "log_entry")
       => /\ lastError' = "ParseError"
          /\ bashEvents' = bashEvents
          /\ bstate' = "Skipped"]_vars

C10_Witness ==
  /\ bstate = "Skipped"
  /\ lastError = "ParseError"
  /\ lastKey = "header"
  /\ parseCalls = 2
  /\ Len(bashEvents) = 1

\* The marker immediately followed by at least nine digits, at position i
AnchorAt(s, i) == s[i] = "#" /\ DigitRun(s, i + 1) >= TimestampMinDigits

\* A Python-style comment follows the digits of the anchor at position i
CommentFollows(s, i) ==
  LET c == SkipWhite(s, i + 1 + DigitRun(s, i + 1))
  IN c <= Len(s) /\ s[c] = "#"

\* C8: VerifyStructure returns false for a sample without a marker immediately
\* followed by 9-10 digits, and for a sample all of whose anchors are followed
\* by a Python-style comment.
C8_VerifyRejects ==
  verifyPc = "done" =>
    /\ (\A i \in 1..Len(sample) : ~AnchorAt(sample, i)) => ~verifyResult
    /\ (\A i \in 1..Len(sample) : AnchorAt(sample, i) => CommentFollows(sample, i))
         => ~verifyResult

===========================================================================
